---- MODULE Spec2Model ----
(***************************************************************************)
(* Pairwise chat: the Room Directory (ChatService), the per-connection     *)
(* session (ChatRoom) and the Kafka relay (KafkaService).                  *)
(*                                                                         *)
(* A caller is one unit of work with its own store session (self.db).      *)
(* Every `await` on the store is one step, so callers interleave between   *)
(* a query and the commit that follows it.                                 *)
(***************************************************************************)
EXTENDS Integers, Sequences, FiniteSets, TLC

\* ------------------------------------------------------------------ bounds
MaxRooms == 2
MaxMsgs == 2
MaxEvents == 4
MaxSent == 2

\* ------------------------------------------------------------------ users
Users == {1, 2}
Callers == {1, 2}
NoUser == 0
Sep == "|"

\* User.nickname, as a sequence of characters
Nickname(u) == IF u = 1 THEN <<"a", "l">> ELSE <<"b">>

UnknownNick == <<"z">>
Nicks == {Nickname(u) : u \in Users} \cup {UnknownNick}

\* UserService.get_user_by_nickname: the user, or None
get_user_by_nickname(n) ==
  IF \E u \in Users : Nickname(u) = n
  THEN CHOOSE u \in Users : Nickname(u) = n
  ELSE NoUser

\* ------------------------------------------------------------------ strings
Contains(l, x) == \E i \in 1..Len(l) : l[i] = x

FirstIndex(l, x) == CHOOSE k \in 1..Len(l) : l[k] = x /\ \A j \in 1..(k - 1) : l[j] # x

\* str.split(sep)
RECURSIVE Split(_, _)
Split(s, sep) ==
  IF ~Contains(s, sep) THEN <<s>>
  ELSE LET i == FirstIndex(s, sep)
       IN  <<SubSeq(s, 1, i - 1)>> \o Split(SubSeq(s, i + 1, Len(s)), sep)

\* list.remove(x): drops the first element equal to x (ValueError when absent)
ListRemove(l, x) ==
  LET i == FirstIndex(l, x) IN SubSeq(l, 1, i - 1) \o SubSeq(l, i + 1, Len(l))

\* "".join(l)
RECURSIVE Join(_)
Join(l) == IF l = <<>> THEN <<>> ELSE Head(l) \o Join(Tail(l))

\* f"{a}|{b}"
RoomName(a, b) == a \o <<Sep>> \o b

\* ChatService._extract_nickname: the new room_name, or ValueError
ExtractNickname(room_name, nick) ==
  LET tokens == Split(room_name, Sep)
  IN  IF Contains(tokens, nick)
      THEN [ok |-> TRUE, value |-> Join(ListRemove(tokens, nick))]
      ELSE [ok |-> FALSE, value |-> room_name]

\* ------------------------------------------------------------------ relay names
\* Provide["chat_rooms_topic"], Provide["confirmation_topic"]
chat_rooms_topic == "chat_rooms"
confirmation_topic == "confirmation"
Topics == {chat_rooms_topic, confirmation_topic}
Procs == {1, 2}
\* the two consumer loops of a process
Loops == {"chat", "code"}
NoLoop == [at |-> "new", subscribed |-> {}, offset |-> [t \in Topics |-> 0]]

\* ------------------------------------------------------------------ state
VARIABLES
  rooms,       \* committed ChatRoom rows: id -> [room_name, users, active]
  nextRoomId,  \* the next autoincrement id
  dirty,       \* per session: room id -> room_name assigned in memory, not yet flushed
  pc,          \* per caller: where it is in its current call
  args,        \* per caller: the arguments of the current call
  room_db,     \* per caller: the room object the current call holds
  log,         \* whether completed calls are recorded in last
  last,        \* the last completed call: what it was given and what it returned
  messages,    \* committed ChatMessage rows: id -> [room_id, author_id, context]
  nextMsgId,   \* the next autoincrement id
  ws,          \* per caller: its ChatRoom (the connection's session object)
  events,      \* the responses handed to ws_manager.connection_state, in order
  topics,      \* the broker: topic -> the values sent to it, in order
  loop,        \* per process and consumer loop: [at, subscribed, offset]
  delivered    \* per process: the ws_manager.broadcast calls of its chat loop

dirVars == <<rooms, nextRoomId, dirty>>
callVars == <<pc, args, room_db, log, last>>
chatVars == <<messages, nextMsgId, ws, events>>
relayVars == <<topics, loop, delivered>>
vars == <<dirVars, callVars, chatVars, relayVars>>

NoRoom == [id |-> 0, room_name |-> <<>>, users |-> {}, active |-> FALSE]
NoArgs == [user |-> NoUser, nick |-> <<>>, rid |-> 0, wrote |-> FALSE,
           flag |-> FALSE, fault |-> "none", before |-> FALSE]
NoCall == [op |-> "none", user |-> NoUser, nick |-> <<>>, rid |-> 0,
           status |-> "none", out |-> <<>>, wrote |-> FALSE, state |-> "",
           action |-> "", fault |-> FALSE, seen |-> {}, twin |-> 0, content |-> "",
           active |-> <<>>, message_id |-> 0]
NoWs == [current_user |-> NoUser, other_user_nickname |-> <<>>, room |-> 0, state |-> "none"]

Empty == [r \in {} |-> <<>>]

InitWith(l) ==
  /\ log = l
  /\ rooms = Empty
  /\ nextRoomId = 1
  /\ dirty = [c \in Callers |-> Empty]
  /\ pc = [c \in Callers |-> "idle"]
  /\ args = [c \in Callers |-> NoArgs]
  /\ room_db = [c \in Callers |-> NoRoom]
  /\ last = NoCall
  /\ messages = Empty
  /\ nextMsgId = 1
  /\ ws = [c \in Callers |-> NoWs]
  /\ events = <<>>
  /\ topics = [t \in Topics |-> <<>>]
  /\ loop = [p \in Procs |-> [k \in Loops |-> NoLoop]]
  /\ delivered = [p \in Procs |-> <<>>]

Init == InitWith(FALSE)

\* ------------------------------------------------------------------ store session
\* The room as the caller's session sees it: a room_name assigned in memory
\* (dirty) shadows the committed one until the session commits or closes.
Load(c, rid) ==
  [id |-> rid,
   room_name |-> IF rid \in DOMAIN dirty[c] THEN dirty[c][rid] ELSE rooms[rid].room_name,
   users |-> rooms[rid].users,
   active |-> rooms[rid].active]

\* AsyncSession.commit: the session's pending room_name assignments reach the store
Flush(c) ==
  [r \in DOMAIN rooms |->
     IF r \in DOMAIN dirty[c] THEN [rooms[r] EXCEPT !.room_name = dirty[c][r]] ELSE rooms[r]]

\* room_db.room_name = ... on an object of the session
Assign(c, names) ==
  [r \in DOMAIN dirty[c] \cup DOMAIN names |->
     IF r \in DOMAIN names THEN names[r] ELSE dirty[c][r]]

\* the row is deleted: no session holds a pending assignment for it any more
Forget(names, rid) == [r \in DOMAIN names \ {rid} |-> names[r]]

\* What a completed call is remembered by.  wrote: the call changed the store.
\* state: the state of the connection's session when the call began.  action,
\* fault, content: the inbound action, whether the store failed under it, and
\* the content and the message id it carried.  active: for set_room_activity, the flag it was
\* given, the stored flag when it began and the flag of the room it returned.
\* seen: the members of room rid when
\* the call read it ({NoUser}: no such row).  twin: the room the call before
\* returned, when that call was a get_or_create_room of the same two users.
Call(op, u, n, rid, status, out, wrote) ==
  [op |-> op, user |-> u, nick |-> n, rid |-> rid,
   status |-> status, out |-> out, wrote |-> wrote, state |-> "",
   action |-> "", fault |-> FALSE, seen |-> {}, twin |-> 0, content |-> "",
   active |-> <<>>, message_id |-> 0]

Seen(rid) == IF rid \in DOMAIN rooms THEN rooms[rid].users ELSE {NoUser}

Twin(r) ==
  IF /\ r.op = "get_or_create_room"
     /\ last.op = "get_or_create_room"
     /\ last.status = "ok"
     /\ {r.user, get_user_by_nickname(r.nick)} = {last.user, get_user_by_nickname(last.nick)}
  THEN last.rid
  ELSE 0

\* the call returns (or raises): the caller is idle again
Done(c, r) ==
  /\ pc' = [pc EXCEPT ![c] = "idle"]
  /\ args' = [args EXCEPT ![c] = NoArgs]
  /\ room_db' = [room_db EXCEPT ![c] = NoRoom]
  /\ last' = IF log THEN [r EXCEPT !.twin = Twin(r)] ELSE last
  /\ UNCHANGED <<log, relayVars>>

Goto(c, label, a, obj) ==
  /\ pc' = [pc EXCEPT ![c] = label]
  /\ args' = [args EXCEPT ![c] = a]
  /\ room_db' = [room_db EXCEPT ![c] = obj]
  /\ UNCHANGED <<log, last, relayVars>>

\* callers that are about to insert a room
Inserting == {d \in Callers : pc[d] \in {"goc_commit", "ins_commit"}}
HasRoomId == nextRoomId + Cardinality(Inserting) <= MaxRooms

\* ------------------------------------------------------------------ Room Directory
\* a lookup by the stored name instead of by the members
RoomByNameOnly(u, n) ==
  {r \in DOMAIN rooms : rooms[r].room_name = RoomName(Nickname(u), n)}

\* ChatService.get_room_by_nickname: the rooms the query matches; first() takes one
get_room_by_nickname(u, n) ==
  {r \in DOMAIN rooms :
     /\ \E m \in rooms[r].users : Nickname(m) = n
     /\ \E m \in rooms[r].users : Nickname(m) = Nickname(u)}

\* the query of ChatService.get_room_by_id
QueryRoomById(rid, u) ==
  /\ rid \in DOMAIN rooms
  /\ u # NoUser => u \in rooms[rid].users

\* ChatRoom(room_name=f"{current_user.nickname}|{nickname}", users=[user_db, current_user])
\* made_for remembers who created the row and for which peer; the program never reads it
NewRoom(u, n) ==
  [room_name |-> RoomName(Nickname(u), n),
   users |-> {get_user_by_nickname(n), u},
   active |-> TRUE,
   made_for |-> <<u, get_user_by_nickname(n)>>]

\* self.db.add(room); await self.db.commit()
AddRoomCommit(c, next) ==
  LET rid == nextRoomId IN
  /\ rooms' = [r \in DOMAIN rooms \cup {rid} |->
                 IF r = rid THEN NewRoom(args[c].user, args[c].nick) ELSE Flush(c)[r]]
  /\ nextRoomId' = nextRoomId + 1
  /\ dirty' = [dirty EXCEPT ![c] = Empty]
  /\ Goto(c, next, [args[c] EXCEPT !.rid = rid, !.wrote = TRUE], NoRoom)

\* return await self.get_room_by_id(room.id, current_user, filter_result=False)
Refetch(c, op) ==
  LET a == args[c] IN
  /\ IF QueryRoomById(a.rid, a.user)
     THEN Done(c, Call(op, a.user, a.nick, a.rid, "ok",
                       [r \in {a.rid} |-> Load(c, a.rid).room_name], TRUE))
     ELSE Done(c, Call(op, a.user, a.nick, a.rid, "NotFoundError", Empty, TRUE))
  /\ UNCHANGED <<rooms, nextRoomId, dirty>>

\* ChatService.get_or_create_room, up to the room query
GetOrCreateRoom(c, u, n) ==
  /\ pc[c] = "idle"
  /\ IF get_user_by_nickname(n) = NoUser
     THEN /\ Done(c, Call("get_or_create_room", u, n, 0, "NotFoundError", Empty, FALSE))
     ELSE IF get_room_by_nickname(u, n) # {}
     THEN \E r \in get_room_by_nickname(u, n) :
            Done(c, Call("get_or_create_room", u, n, r, "ok",
                         [x \in {r} |-> Load(c, r).room_name], FALSE))
     ELSE /\ HasRoomId
          /\ Goto(c, "goc_commit", [NoArgs EXCEPT !.user = u, !.nick = n], NoRoom)
  /\ UNCHANGED <<rooms, nextRoomId, dirty>>
  /\ UNCHANGED chatVars

GetOrCreateRoomCommit(c) ==
  /\ pc[c] = "goc_commit"
  /\ AddRoomCommit(c, "goc_refetch")
  /\ UNCHANGED chatVars

GetOrCreateRoomRefetch(c) ==
  /\ pc[c] = "goc_refetch"
  /\ Refetch(c, "get_or_create_room")
  /\ UNCHANGED chatVars

\* ChatService.insert_room, up to the room query
InsertRoom(c, u, n) ==
  /\ pc[c] = "idle"
  /\ IF get_user_by_nickname(n) = NoUser
     THEN /\ Done(c, Call("insert_room", u, n, 0, "NotFoundError", Empty, FALSE))
          /\ UNCHANGED dirty
     ELSE IF get_room_by_nickname(u, n) # {}
     THEN \E r \in get_room_by_nickname(u, n) :
            LET e == ExtractNickname(Load(c, r).room_name, Nickname(u)) IN
            IF e.ok
            THEN /\ dirty' = [dirty EXCEPT ![c] = Assign(c, [x \in {r} |-> e.value])]
                 /\ Done(c, Call("insert_room", u, n, r, "ok", [x \in {r} |-> e.value], FALSE))
            ELSE /\ Done(c, Call("insert_room", u, n, r, "ValueError", Empty, FALSE))
                 /\ UNCHANGED dirty
     ELSE /\ HasRoomId
          /\ Goto(c, "ins_commit", [NoArgs EXCEPT !.user = u, !.nick = n], NoRoom)
          /\ UNCHANGED dirty
  /\ UNCHANGED <<rooms, nextRoomId>>
  /\ UNCHANGED chatVars

InsertRoomCommit(c) ==
  /\ pc[c] = "ins_commit"
  /\ AddRoomCommit(c, "ins_refetch")
  /\ UNCHANGED chatVars

InsertRoomRefetch(c) ==
  /\ pc[c] = "ins_refetch"
  /\ Refetch(c, "insert_room")
  /\ UNCHANGED chatVars

\* ChatService.get_user_rooms
GetUserRooms(c, u) ==
  LET result == {r \in DOMAIN rooms : u \in rooms[r].users}
      e == [r \in result |-> ExtractNickname(Load(c, r).room_name, Nickname(u))]
  IN
  /\ pc[c] = "idle"
  /\ IF \A r \in result : e[r].ok
     THEN /\ dirty' = [dirty EXCEPT ![c] = Assign(c, [r \in result |-> e[r].value])]
          /\ Done(c, Call("get_user_rooms", u, <<>>, 0, "ok", [r \in result |-> e[r].value], FALSE))
     ELSE \* the loop stops at the first room that raises; the rooms before it,
          \* in the order the query gave them, are already renamed
          \E S \in SUBSET {r \in result : e[r].ok} :
            /\ dirty' = [dirty EXCEPT ![c] = Assign(c, [r \in S |-> e[r].value])]
            /\ Done(c, Call("get_user_rooms", u, <<>>, 0, "ValueError", Empty, FALSE))
  /\ UNCHANGED <<rooms, nextRoomId>>
  /\ UNCHANGED chatVars

\* ChatService.get_room_by_id (u = NoUser: current_user=None)
GetRoomById(c, rid, u, filter) ==
  /\ pc[c] = "idle"
  /\ IF ~QueryRoomById(rid, u)
     THEN /\ Done(c, Call("get_room_by_id", u, <<>>, rid, "NotFoundError", Empty, FALSE))
          /\ UNCHANGED dirty
     ELSE IF u # NoUser /\ filter
     THEN LET e == ExtractNickname(Load(c, rid).room_name, Nickname(u)) IN
          IF e.ok
          THEN /\ dirty' = [dirty EXCEPT ![c] = Assign(c, [x \in {rid} |-> e.value])]
               /\ Done(c, [Call("get_room_by_id", u, <<>>, rid, "ok", [x \in {rid} |-> e.value], FALSE)
                             EXCEPT !.action = "filter"])
          ELSE /\ Done(c, [Call("get_room_by_id", u, <<>>, rid, "ValueError", Empty, FALSE)
                             EXCEPT !.action = "filter"])
               /\ UNCHANGED dirty
     ELSE /\ Done(c, Call("get_room_by_id", u, <<>>, rid, "ok",
                          [x \in {rid} |-> Load(c, rid).room_name], FALSE))
          /\ UNCHANGED dirty
  /\ UNCHANGED <<rooms, nextRoomId>>
  /\ UNCHANGED chatVars

\* ChatService.remove_user_from_chat, up to the membership test
RemoveUserFromChat(c, u, rid) ==
  LET r == [Call("remove_user_from_chat", u, <<>>, rid, "ok", Empty, FALSE)
              EXCEPT !.seen = Seen(rid)]
  IN
  /\ pc[c] = "idle"
  /\ IF ~QueryRoomById(rid, u)
     THEN Done(c, [r EXCEPT !.status = "NotFoundError"])
     ELSE IF u \in Load(c, rid).users
     THEN Goto(c, "rm_commit", [NoArgs EXCEPT !.user = u, !.rid = rid], Load(c, rid))
     ELSE Done(c, r)
  /\ UNCHANGED <<rooms, nextRoomId, dirty>>
  /\ UNCHANGED chatVars

\* the emptiness test made on the members as they were loaded
RemoveUserCommitStale(c) ==
  LET a == args[c]
      r == [Call("remove_user_from_chat", a.user, <<>>, a.rid, "ok", Empty, TRUE)
              EXCEPT !.seen = room_db[c].users]
  IN
  /\ pc[c] = "rm_commit"
  /\ a.rid \in DOMAIN rooms /\ a.user \in rooms[a.rid].users
  /\ rooms' = [Flush(c) EXCEPT ![a.rid].users = @ \ {a.user}]
  /\ dirty' = [dirty EXCEPT ![c] = Empty]
  /\ IF room_db[c].users = {} THEN Goto(c, "rm_delete", a, room_db[c]) ELSE Done(c, r)
  /\ UNCHANGED <<nextRoomId, chatVars>>

\* room_db.users.remove(current_user); self.db.add(room_db); await self.db.commit()
RemoveUserCommit(c) ==
  LET a == args[c]
      obj == [room_db[c] EXCEPT !.users = @ \ {a.user}]
      r == [Call("remove_user_from_chat", a.user, <<>>, a.rid, "ok", Empty, TRUE)
              EXCEPT !.seen = room_db[c].users]
  IN
  /\ pc[c] = "rm_commit"
  /\ IF a.rid \in DOMAIN rooms /\ a.user \in rooms[a.rid].users
     THEN /\ rooms' = [Flush(c) EXCEPT ![a.rid].users = @ \ {a.user}]
          /\ dirty' = [dirty EXCEPT ![c] = Empty]
          /\ IF obj.users = {} THEN Goto(c, "rm_delete", a, obj) ELSE Done(c, r)
     ELSE \* the membership row is gone: the flush matches no row
          /\ Done(c, [r EXCEPT !.status = "StaleDataError", !.wrote = FALSE])
          /\ UNCHANGED <<rooms, dirty>>
  /\ UNCHANGED nextRoomId
  /\ UNCHANGED chatVars

\* await self.db.delete(room_db); await self.db.commit()
RemoveUserDelete(c) ==
  LET a == args[c]
      r == [Call("remove_user_from_chat", a.user, <<>>, a.rid, "ok", Empty, TRUE)
              EXCEPT !.seen = {a.user}]
  IN
  /\ pc[c] = "rm_delete"
  /\ IF a.rid \in DOMAIN rooms
     THEN /\ rooms' = [x \in DOMAIN rooms \ {a.rid} |-> rooms[x]]
          /\ dirty' = [d \in Callers |-> Forget(dirty[d], a.rid)]
          /\ Done(c, r)
     ELSE /\ Done(c, [r EXCEPT !.status = "StaleDataError"])
          /\ UNCHANGED <<rooms, dirty>>
  /\ UNCHANGED nextRoomId
  /\ UNCHANGED chatVars

\* The transaction of a session in which a statement failed and no rollback
\* was made: the driver either lets the next statement run or refuses it.
TransactionAfterError == {"usable", "aborted"}

\* ChatService.set_room_activity, up to the first get_room_by_id(room_id);
\* fault: what becomes of the update ("none": it goes through)
SetRoomActivity(c, rid, flag, fault) ==
  /\ pc[c] = "idle"
  /\ IF ~QueryRoomById(rid, NoUser)
     THEN Done(c, [Call("set_room_activity", NoUser, <<>>, rid, "NotFoundError", Empty, FALSE)
                     EXCEPT !.fault = fault # "none"])
     ELSE Goto(c, "act_update",
               [NoArgs EXCEPT !.rid = rid, !.flag = flag, !.fault = fault,
                              !.before = rooms[rid].active],
               Load(c, rid))
  /\ UNCHANGED <<dirVars, chatVars>>

\* try: execute(update(ChatRoom)...values(active=activity_bool)); commit()
\* except Exception: logger.error
SetRoomActivityUpdate(c) ==
  LET a == args[c] IN
  /\ pc[c] = "act_update"
  /\ IF a.fault = "none" /\ a.rid \in DOMAIN rooms
     THEN /\ rooms' = [Flush(c) EXCEPT ![a.rid].active = a.flag]
          /\ dirty' = [dirty EXCEPT ![c] = Empty]
          /\ Goto(c, "act_refetch", [a EXCEPT !.wrote = TRUE], room_db[c])
     ELSE /\ Goto(c, "act_refetch", a, room_db[c])
          /\ UNCHANGED <<rooms, dirty>>
  /\ UNCHANGED <<nextRoomId, chatVars>>

\* return await self.get_room_by_id(room_id)
SetRoomActivityRefetch(c) ==
  LET a == args[c]
      r == [Call("set_room_activity", NoUser, <<>>, a.rid, "ok", Empty, a.wrote)
              EXCEPT !.fault = a.fault # "none", !.active = <<a.flag, a.before>>]
  IN
  /\ pc[c] = "act_refetch"
  /\ IF a.fault = "aborted"
     THEN \* the statement is refused; the request ends and with it the session
          /\ Done(c, [r EXCEPT !.status = "DBAPIError"])
          /\ dirty' = [dirty EXCEPT ![c] = Empty]
     ELSE IF ~QueryRoomById(a.rid, NoUser)
     THEN /\ Done(c, [r EXCEPT !.status = "NotFoundError"])
          /\ UNCHANGED dirty
     ELSE /\ Done(c, [r EXCEPT !.out = [x \in {a.rid} |-> Load(c, a.rid).room_name],
                               !.active = <<a.flag, a.before, Load(c, a.rid).active>>])
          /\ UNCHANGED dirty
  /\ UNCHANGED <<rooms, nextRoomId, chatVars>>

\* the session ends (the request is over): what it did not commit is dropped
CloseSession(c) ==
  /\ pc[c] = "idle"
  /\ dirty[c] # Empty
  /\ dirty' = [dirty EXCEPT ![c] = Empty]
  /\ UNCHANGED <<rooms, nextRoomId, callVars, chatVars, relayVars>>

\* ------------------------------------------------------------------ specifications
RoomIds == 1..MaxRooms

\* ------------------------------------------------------------------ Message Store
Contents == {"hi", "yo"}
MsgIds == 1..MaxMsgs

\* MessageService.get_all_messages_in_room: the room's rows in creation order;
\* NotFoundError when there is none
InRoom(rid) == {m \in DOMAIN messages : messages[m].room_id = rid}

RECURSIVE Ascending(_)
Ascending(S) ==
  IF S = {} THEN <<>>
  ELSE LET m == CHOOSE x \in S : \A y \in S : x <= y IN <<m>> \o Ascending(S \ {m})

\* a history that holds the room's newest message only
ChatMessagesNewestOnly(rid) ==
  LET ids == Ascending(InRoom(rid)) IN
  [i \in 1..(IF ids = <<>> THEN 0 ELSE 1) |->
     [message_id |-> ids[Len(ids)],
      message_context |-> messages[ids[Len(ids)]].context,
      author_id |-> messages[ids[Len(ids)]].author_id]]

\* the chat_messages list of on_connect; [] on NotFoundError
ChatMessages(rid) ==
  LET ids == Ascending(InRoom(rid)) IN
  [i \in 1..Len(ids) |->
     [message_id |-> ids[i],
      message_context |-> messages[ids[i]].context,
      author_id |-> messages[ids[i]].author_id]]

\* ------------------------------------------------------------------ session (ChatRoom)
\* a response dict: keys are the keys it has; a field whose key is absent is blank
Response(type, keys) ==
  [type |-> type, keys |-> keys \cup {"type"}, room_id |-> 0, user_id |-> NoUser,
   user_nickname |-> <<>>, message_id |-> 0, message_context |-> "", chat_messages |-> <<>>]

\* ws_manager.connection_state(self.db, self.websocket, self.room.id, response)
connection_state(c, room_id, response) ==
  events' = Append(events, [websocket |-> c, room_id |-> room_id, response |-> response])

CanEmit == Len(events) < MaxEvents

\* the check left out
SelfChatUnchecked(u, n) == FALSE

\* if self.current_user.nickname == self.other_user_nickname
SelfChat(u, n) == Nickname(u) = n

\* ChatRoom.__init__
NewChatRoom(c, u, n) ==
  /\ pc[c] = "idle"
  /\ ws[c] = NoWs
  /\ ws' = [ws EXCEPT ![c] = [current_user |-> u, other_user_nickname |-> n,
                              room |-> 0, state |-> "CONNECTING"]]
  /\ UNCHANGED <<dirVars, callVars, messages, nextMsgId, events, relayVars>>

ConnectCall(c, status, wrote) ==
  [Call("on_connect", ws[c].current_user, ws[c].other_user_nickname, ws[c].room,
        status, <<>>, wrote) EXCEPT !.state = ws[c].state]

\* ChatRoom.on_connect, up to the room query of get_or_create_room
OnConnect(c) ==
  LET u == ws[c].current_user
      n == ws[c].other_user_nickname
  IN
  /\ pc[c] = "idle"
  /\ ws[c] # NoWs
  /\ IF SelfChat(u, n)
     THEN /\ Done(c, ConnectCall(c, "RuntimeError", FALSE))
          /\ UNCHANGED ws
     ELSE IF get_user_by_nickname(n) = NoUser
     THEN /\ Done(c, ConnectCall(c, "NotFoundError", FALSE))
          /\ UNCHANGED ws
     ELSE IF get_room_by_nickname(u, n) # {}
     THEN \E r \in get_room_by_nickname(u, n) :
            /\ ws' = [ws EXCEPT ![c].room = r]
            /\ Goto(c, "conn_join", [NoArgs EXCEPT !.user = u, !.nick = n, !.rid = r], NoRoom)
     ELSE /\ HasRoomId
          /\ Goto(c, "conn_commit", [NoArgs EXCEPT !.user = u, !.nick = n], NoRoom)
          /\ UNCHANGED ws
  /\ UNCHANGED <<dirVars, messages, nextMsgId, events>>

OnConnectCommit(c) ==
  /\ pc[c] = "conn_commit"
  /\ AddRoomCommit(c, "conn_refetch")
  /\ UNCHANGED chatVars

\* self.room = await ...get_room_by_id(room.id, current_user, filter_result=False)
OnConnectRefetch(c) ==
  /\ pc[c] = "conn_refetch"
  /\ IF QueryRoomById(args[c].rid, args[c].user)
     THEN /\ ws' = [ws EXCEPT ![c].room = args[c].rid]
          /\ Goto(c, "conn_join", args[c], NoRoom)
     ELSE /\ Done(c, ConnectCall(c, "NotFoundError", TRUE))
          /\ UNCHANGED ws
  /\ UNCHANGED <<dirVars, messages, nextMsgId, events>>

\* the history is read and USER_JOIN is handed to ws_manager
OnConnectJoin(c) ==
  LET u == ws[c].current_user
      response == [Response("USER_JOIN", {"room_id", "user", "chat_messages"})
                     EXCEPT !.room_id = ws[c].room, !.user_id = u,
                            !.user_nickname = Nickname(u),
                            !.chat_messages = ChatMessages(ws[c].room)]
      w == [ws EXCEPT ![c].state = IF @ = "CONNECTING" THEN "ACTIVE" ELSE @]
  IN
  /\ pc[c] = "conn_join"
  /\ CanEmit
  /\ connection_state(c, ws[c].room, response)
  /\ ws' = w
  /\ Done(c, [ConnectCall(c, "ok", args[c].wrote)
                EXCEPT !.out = <<response>>, !.rid = ws[c].room])
  /\ UNCHANGED <<dirVars, messages, nextMsgId>>

\* a row written under the id of the peer instead of the sender's
MessageCreateByOwner(c, content) ==
  [room_id |-> ws[c].room,
   author_id |-> IF ws[c].room \in DOMAIN rooms THEN rooms[ws[c].room].made_for[2] ELSE NoUser,
   context |-> content]

\* MessageCreate(context=message["content"], room_id=room_db.id, author_id=current_user.id)
MessageCreate(c, content) ==
  [room_id |-> ws[c].room, author_id |-> ws[c].current_user, context |-> content]

\* ChatService.upload_message_to_room: the new row, or False when
\* MessageService.create_message raises (fault, or no room to read the id of)
UploadFails(c, fault) == fault \/ ws[c].room = 0

\* ChatRoom.on_receive with {"action": "CREATE", "content": content}
OnReceiveCreate(c, content, fault) ==
  LET u == ws[c].current_user
      id == nextMsgId
      response == [Response("CREATE_MESSAGE", {"room_id", "user", "message"})
                     EXCEPT !.room_id = ws[c].room, !.user_id = u,
                            !.user_nickname = Nickname(u),
                            !.message_id = id, !.message_context = content]
      r == [Call("on_receive", u, <<>>, ws[c].room, "ok", <<>>, FALSE)
              EXCEPT !.state = ws[c].state, !.action = "CREATE", !.fault = fault,
                     !.content = content]
  IN
  /\ pc[c] = "idle"
  /\ ws[c] # NoWs
  /\ IF UploadFails(c, fault)
     THEN \* new_message is False: new_message.id raises
          /\ Done(c, [r EXCEPT !.status = "AttributeError"])
          /\ UNCHANGED <<dirVars, messages, nextMsgId, events>>
     ELSE /\ nextMsgId <= MaxMsgs
          /\ CanEmit
          /\ messages' = [m \in DOMAIN messages \cup {id} |->
                            IF m = id
                            THEN MessageCreate(c, content)
                            ELSE messages[m]]
          /\ nextMsgId' = nextMsgId + 1
          /\ rooms' = Flush(c)
          /\ dirty' = [dirty EXCEPT ![c] = Empty]
          /\ connection_state(c, ws[c].room, response)
          /\ Done(c, [r EXCEPT !.wrote = TRUE, !.out = <<response>>])
          /\ UNCHANGED nextRoomId
  /\ UNCHANGED ws

\* a DELETE_MESSAGE that does not say which message
DeleteResponseNoId(id) == Response("DELETE_MESSAGE", {})

\* response = {"type": "DELETE_MESSAGE", "message_id": msg["content"]}
DeleteResponse(id) == [Response("DELETE_MESSAGE", {"message_id"}) EXCEPT !.message_id = id]

\* ChatRoom.on_receive with {"action": "DELETE", "content": id}
OnReceiveDelete(c, id) ==
  LET response == DeleteResponse(id)
      r == [Call("on_receive", ws[c].current_user, <<>>, ws[c].room, "ok", <<>>, FALSE)
              EXCEPT !.state = ws[c].state, !.action = "DELETE", !.message_id = id]
  IN
  /\ pc[c] = "idle"
  /\ ws[c] # NoWs
  /\ IF id \notin DOMAIN messages
     THEN /\ Done(c, [r EXCEPT !.status = "NotFoundError"])
          /\ UNCHANGED <<dirVars, messages, events>>
     ELSE /\ messages' = [m \in DOMAIN messages \ {id} |-> messages[m]]
          /\ rooms' = Flush(c)
          /\ dirty' = [dirty EXCEPT ![c] = Empty]
          /\ UNCHANGED nextRoomId
          /\ IF ws[c].room = 0
             THEN \* self.room is None: self.room.id raises after the row is gone
                  /\ Done(c, [r EXCEPT !.status = "AttributeError", !.wrote = TRUE])
                  /\ UNCHANGED events
             ELSE /\ CanEmit
                  /\ connection_state(c, ws[c].room, response)
                  /\ Done(c, [r EXCEPT !.wrote = TRUE, !.out = <<response>>])
  /\ UNCHANGED <<nextMsgId, ws>>

\* ChatRoom.on_receive with {"action": "UPDATE", "message_id": id, "content": content}
OnReceiveUpdate(c, id, content) ==
  LET response == [Response("UPDATE_MESSAGE", {"message_id", "message_context"})
                     EXCEPT !.message_id = id, !.message_context = content]
      r == [Call("on_receive", ws[c].current_user, <<>>, ws[c].room, "ok", <<>>, FALSE)
              EXCEPT !.state = ws[c].state, !.action = "UPDATE", !.message_id = id,
                     !.content = content]
  IN
  /\ pc[c] = "idle"
  /\ ws[c] # NoWs
  /\ IF id \notin DOMAIN messages
     THEN /\ Done(c, [r EXCEPT !.status = "NotFoundError"])
          /\ UNCHANGED <<dirVars, messages, events>>
     ELSE /\ messages' = [messages EXCEPT ![id].context = content]
          /\ rooms' = Flush(c)
          /\ dirty' = [dirty EXCEPT ![c] = Empty]
          /\ UNCHANGED nextRoomId
          /\ IF ws[c].room = 0
             THEN /\ Done(c, [r EXCEPT !.status = "AttributeError", !.wrote = TRUE])
                  /\ UNCHANGED events
             ELSE /\ CanEmit
                  /\ connection_state(c, ws[c].room, response)
                  /\ Done(c, [r EXCEPT !.wrote = TRUE, !.out = <<response>>])
  /\ UNCHANGED <<nextMsgId, ws>>

\* ChatRoom.on_receive with an action that is none of the three: no branch runs
OnReceiveOther(c) ==
  /\ pc[c] = "idle"
  /\ ws[c] # NoWs
  /\ Done(c, [Call("on_receive", ws[c].current_user, <<>>, ws[c].room, "ok", <<>>, FALSE)
                EXCEPT !.state = ws[c].state, !.action = "OTHER"])
  /\ UNCHANGED <<dirVars, chatVars>>

\* ChatRoom.on_disconnect
OnDisconnect(c) ==
  LET u == ws[c].current_user
      response == [Response("USER_LEAVE", {"room_id", "user_id", "user_nickname"})
                     EXCEPT !.room_id = ws[c].room, !.user_id = u,
                            !.user_nickname = Nickname(u)]
      r == [Call("on_disconnect", u, <<>>, ws[c].room, "ok", <<>>, FALSE)
              EXCEPT !.state = ws[c].state]
  IN
  /\ pc[c] = "idle"
  /\ ws[c] # NoWs
  /\ IF ws[c].room = 0
     THEN \* self.room is None
          /\ Done(c, [r EXCEPT !.status = "AttributeError"])
          /\ UNCHANGED events
     ELSE /\ CanEmit
          /\ connection_state(c, ws[c].room, response)
          /\ Done(c, [r EXCEPT !.out = <<response>>])
  /\ ws' = [ws EXCEPT ![c].state = IF @ = "ACTIVE" THEN "CLOSED" ELSE @]
  /\ UNCHANGED <<dirVars, messages, nextMsgId>>

\* ------------------------------------------------------------------ relay (KafkaService)
\* A Python value on its way through JSON: a dict (a response) or a str.
Object(response) == [t |-> "object", obj |-> response, str |-> <<>>]
String(chars) == [t |-> "string", obj |-> Response("", {}), str |-> chars]

\* json.dumps(v).encode("utf-8") and json.loads(msg.value)
Dumps(v) == [utf8 |-> v]
Loads(b) == b.utf8

\* email_or_phone.strip('"')
RECURSIVE Strip(_)
Strip(x) ==
  IF x # <<>> /\ Head(x) = "\"" THEN Strip(Tail(x))
  ELSE IF x # <<>> /\ x[Len(x)] = "\"" THEN Strip(SubSeq(x, 1, Len(x) - 1))
  ELSE x

\* app.utils.isValid
isValid(x) == Contains(x, "@")

Emails == {<<"m", "@", "x">>, <<"\"", "m", "@", "x", "\"">>, <<"m">>}

\* the responses a session hands on for publishing
Published ==
  {[Response("USER_JOIN", {"room_id", "user", "chat_messages"})
      EXCEPT !.room_id = 1, !.user_id = 1, !.user_nickname = Nickname(1)],
   [Response("USER_LEAVE", {"room_id", "user_id", "user_nickname"})
      EXCEPT !.room_id = 2, !.user_id = 1, !.user_nickname = Nickname(1)],
   [Response("DELETE_MESSAGE", {"message_id"}) EXCEPT !.message_id = 1]}

send_and_wait(topic, value) ==
  /\ Len(topics[topic]) < MaxSent
  /\ topics' = [topics EXCEPT ![topic] = Append(@, value)]

\* KafkaService.send_chat_message_producer
SendChatMessageProducer(message) ==
  /\ send_and_wait(chat_rooms_topic, Dumps(Object(message)))
  /\ UNCHANGED <<dirVars, callVars, chatVars, loop, delivered>>

\* KafkaService.send_confirmation_code_producer (email_or_phone a str); an invalid
\* one raises InvalidEmailOrPhone and nothing is sent
SendConfirmationCodeProducer(email_or_phone) ==
  /\ isValid(email_or_phone)
  /\ send_and_wait(confirmation_topic, Dumps(String(Strip(email_or_phone))))
  /\ UNCHANGED <<dirVars, callVars, chatVars, loop, delivered>>

\* the topic each loop passes to consumer.subscribe
ChatLoopTopic == confirmation_topic
CodeLoopTopic == confirmation_topic

LoopTopic(k) == IF k = "chat" THEN ChatLoopTopic ELSE CodeLoopTopic

\* consumer.subscribe(topics=(confirmation_topic, )): the loop starts
Subscribe(p, k) ==
  /\ loop[p][k].at = "new"
  /\ loop' = [loop EXCEPT ![p][k] = [@ EXCEPT !.at = "running", !.subscribed = {LoopTopic(k)}]]
  /\ UNCHANGED <<dirVars, callVars, chatVars, topics, delivered>>

\* the next value of a subscribed topic the loop has not had yet
Pending(p, k) ==
  {t \in loop[p][k].subscribed : loop[p][k].offset[t] < Len(topics[t])}

NextValue(p, k, t) == topics[t][loop[p][k].offset[t] + 1]

\* KafkaService.send_chat_message_consumer, one turn of `async for msg in consumer`
SendChatMessageConsumer(p) ==
  /\ loop[p]["chat"].at = "running"
  /\ \E t \in Pending(p, "chat") :
       LET message == Loads(NextValue(p, "chat", t)) IN
       IF message.t = "object" /\ "room_id" \in message.obj.keys
       THEN /\ delivered' = [delivered EXCEPT ![p] =
                 Append(@, [to |-> "broadcast", room_id |-> message.obj.room_id,
                            message |-> message])]
            /\ loop' = [loop EXCEPT ![p]["chat"].offset[t] = @ + 1]
       ELSE \* message["room_id"] raises (TypeError on a str, KeyError on a dict
            \* without the key): the exception ends the loop
            /\ loop' = [loop EXCEPT ![p]["chat"] = [@ EXCEPT !.at = "raised", !.offset[t] = @ + 1]]
            /\ UNCHANGED delivered
  /\ UNCHANGED <<dirVars, callVars, chatVars, topics>>

\* KafkaService.send_confirmation_code_consumer, one turn of its loop
SendConfirmationCodeConsumer(p) ==
  /\ loop[p]["code"].at = "running"
  /\ \E t \in Pending(p, "code") :
       LET email_or_phone == Loads(NextValue(p, "code", t)) IN
       /\ delivered' = [delivered EXCEPT ![p] =
            Append(@, [to |-> "send_verification_code", room_id |-> 0,
                       message |-> email_or_phone])]
       /\ loop' = [loop EXCEPT ![p]["code"].offset[t] = @ + 1]
  /\ UNCHANGED <<dirVars, callVars, chatVars, topics>>

\* the calls that write rooms
Write(c) ==
  \/ \E u \in Users : \E n \in Nicks \ {Nickname(u)} : GetOrCreateRoom(c, u, n)
  \/ \E u \in Users : \E n \in Nicks \ {Nickname(u)} : InsertRoom(c, u, n)
  \/ \E u \in Users, rid \in RoomIds : RemoveUserFromChat(c, u, rid)

\* set_room_activity, with and without a failure of its update
Activity(c) ==
  \/ \E rid \in RoomIds, flag \in BOOLEAN, fault \in {"none"} \cup TransactionAfterError :
       SetRoomActivity(c, rid, flag, fault)
  \/ SetRoomActivityUpdate(c)
  \/ SetRoomActivityRefetch(c)

\* the calls that only read them
Read(c) ==
  \/ \E u \in Users : GetUserRooms(c, u)
  \/ \E rid \in RoomIds, u \in Users \cup {NoUser}, f \in BOOLEAN : GetRoomById(c, rid, u, f)

Step(c) ==
  \/ GetOrCreateRoomCommit(c)
  \/ GetOrCreateRoomRefetch(c)
  \/ InsertRoomCommit(c)
  \/ InsertRoomRefetch(c)
  \/ RemoveUserCommit(c)
  \/ RemoveUserDelete(c)
  \/ CloseSession(c)

\* Callers that resolve and leave rooms concurrently, each on its own session.
Next == \E c \in Callers : Write(c) \/ Step(c)

Spec == Init /\ [][Next]_vars

\* One client, one call at a time over the whole directory, every completed
\* call recorded.
Client == CHOOSE c \in Callers : \A d \in Callers : c <= d

SeqNext == Write(Client) \/ Read(Client) \/ Step(Client)

SeqSpec == InitWith(TRUE) /\ [][SeqNext]_vars

\* One client that resolves rooms, lists them and sets their active flag, one
\* call at a time, every completed call recorded.
ActivityNext ==
  \/ \E u \in Users : \E n \in Nicks \ {Nickname(u)} : GetOrCreateRoom(Client, u, n)
  \/ GetOrCreateRoomCommit(Client)
  \/ GetOrCreateRoomRefetch(Client)
  \/ \E u \in Users : GetUserRooms(Client, u)
  \/ Activity(Client)
  \/ CloseSession(Client)

ActivitySpec == InitWith(TRUE) /\ [][ActivityNext]_vars

\* One connection with its ChatRoom: the methods are called in any order, one at
\* a time, every completed call recorded.
Connection(c) ==
  \/ \E u \in Users, n \in Nicks : NewChatRoom(c, u, n)
  \/ OnConnect(c)
  \/ OnConnectCommit(c)
  \/ OnConnectRefetch(c)
  \/ OnConnectJoin(c)
  \/ \E content \in Contents, fault \in BOOLEAN : OnReceiveCreate(c, content, fault)
  \/ \E id \in MsgIds : OnReceiveDelete(c, id)
  \/ \E id \in MsgIds, content \in Contents : OnReceiveUpdate(c, id, content)
  \/ OnReceiveOther(c)
  \/ OnDisconnect(c)

ChatNext == Connection(Client)

ChatSpec == InitWith(TRUE) /\ [][ChatNext]_vars

\* The broker, the producers and the two consumer loops of every process.
RelayNext ==
  \/ \E message \in Published : SendChatMessageProducer(message)
  \/ \E e \in Emails : SendConfirmationCodeProducer(e)
  \/ \E p \in Procs, k \in Loops : Subscribe(p, k)
  \/ \E p \in Procs : SendChatMessageConsumer(p)
  \/ \E p \in Procs : SendConfirmationCodeConsumer(p)

RelaySpec == Init /\ [][RelayNext]_vars

\* ------------------------------------------------------------------ claims
Quiet == \A c \in Callers : pc[c] = "idle"

RoomsOf(S) == {r \in DOMAIN rooms : rooms[r].users = S}

\* C1: once every concurrent caller of get_or_create_room / insert_room has
\* returned, at most one room has the two users a and b as its members.
C1_OneRoomPerPair ==
  Quiet => \A a \in Users, b \in Users : a # b => Cardinality(RoomsOf({a, b})) <= 1

\* C2: when the store fails under a CREATE action of an ACTIVE session, on_receive
\* gives its caller a failure signal without raising, emits no event, and the
\* session stays ACTIVE.
C2_CreateFailureIsSignalled ==
  (last.op = "on_receive" /\ last.action = "CREATE" /\ last.fault /\ last.state = "ACTIVE")
    => /\ last.status = "False"
       /\ last.out = <<>>
       /\ ws[Client].state = "ACTIVE"

\* the chat loop of process p has taken everything its subscription offers
ChatLoopDrained(p) == loop[p]["chat"].at = "running" /\ Pending(p, "chat") = {}

Broadcast(p, message) ==
  \E j \in 1..Len(delivered[p]) :
    /\ delivered[p][j].to = "broadcast"
    /\ delivered[p][j].message = message
    /\ delivered[p][j].room_id = message.obj.room_id

\* C3: every event sent on the chat-rooms topic reaches the chat loop of every
\* process and is broadcast with its own room id: a chat loop that has nothing
\* left to take has broadcast every event sent so far.
C3_EveryProcessBroadcasts ==
  \A p \in Procs :
    ChatLoopDrained(p) =>
      \A i \in 1..Len(topics[chat_rooms_topic]) : Broadcast(p, Loads(topics[chat_rooms_topic][i]))

\* C4: get_or_create_room called right after a get_or_create_room of the same two
\* users (in either direction) returns the room the first call returned and
\* creates none.
C4_SecondResolveSameRoom ==
  (last.op = "get_or_create_room" /\ last.twin # 0)
    => /\ last.status = "ok"
       /\ last.rid = last.twin
       /\ ~last.wrote

\* the second call came from the user the room was not created by
C4_Witness ==
  /\ last.op = "get_or_create_room"
  /\ last.twin # 0
  /\ last.status = "ok"
  /\ last.rid \in DOMAIN rooms
  /\ rooms[last.rid].made_for[1] # last.user

LeavesFrom(c) ==
  {i \in 1..Len(events) :
     events[i].websocket = c /\ events[i].response.type = "USER_LEAVE"}

\* C5: a session goes CONNECTING -> ACTIVE -> CLOSED: USER_LEAVE is published at
\* most once, and an inbound action handled outside ACTIVE changes no row and
\* emits no event.
C5_SessionStateMachine ==
  /\ \A c \in Callers : Cardinality(LeavesFrom(c)) <= 1
  /\ (last.op = "on_receive" /\ last.state # "ACTIVE") => (~last.wrote /\ last.out = <<>>)

JoinsFrom(c) ==
  {i \in 1..Len(events) :
     events[i].websocket = c /\ events[i].response.type = "USER_JOIN"}

\* C6: on_connect of a session whose peer nickname is its own nickname fails
\* before any room is touched: no room is created, self.room stays None and no
\* USER_JOIN is emitted.
C6_SelfChatRejected ==
  \A c \in Callers :
    (ws[c] # NoWs /\ Nickname(ws[c].current_user) = ws[c].other_user_nickname)
      => /\ ws[c].room = 0
         /\ ws[c].state # "ACTIVE"
         /\ JoinsFrom(c) = {}
         /\ pc[c] = "idle"
         /\ rooms = Empty /\ nextRoomId = 1
         /\ last.op = "on_connect" => (last.status = "RuntimeError" /\ ~last.wrote)

C6_Witness ==
  /\ last.op = "on_connect"
  /\ Nickname(last.user) = last.nick
  /\ last.status = "RuntimeError"

\* C7: when leave has returned, leave by a member of a two-member room has kept
\* the room with exactly the other member, and leave by the only member left has
\* deleted the room.
C7_LeaveShrinksThenDeletes ==
  (Quiet /\ last.op = "remove_user_from_chat" /\ last.user \in last.seen)
    => /\ last.status = "ok"
       /\ Cardinality(last.seen) = 2 =>
            (last.rid \in DOMAIN rooms /\ rooms[last.rid].users = last.seen \ {last.user})
       /\ last.seen = {last.user} => last.rid \notin DOMAIN rooms

C7_Witness ==
  /\ Quiet
  /\ last.op = "remove_user_from_chat"
  /\ last.seen = {last.user}
  /\ last.status = "ok"
  /\ last.rid \notin DOMAIN rooms

\* C8: leave by a user who is not a member of an existing room returns normally
\* and leaves the room and its members as they were.
C8_NonMemberLeaveIsNoOp ==
  (Quiet /\ last.op = "remove_user_from_chat" /\ last.seen # {NoUser} /\ last.user \notin last.seen)
    => /\ last.status = "ok"
       /\ last.rid \in DOMAIN rooms
       /\ rooms[last.rid].users = last.seen

\* C9: the room get_or_create_room and insert_room return carries the
\* viewer-facing label, the peer's nickname, whether it was found or created.
C9_ViewerFacingLabel ==
  (last.op \in {"get_or_create_room", "insert_room"} /\ last.status = "ok")
    => last.out[last.rid] = last.nick

Peer(r, viewer) ==
  IF rooms[r].made_for[1] = viewer THEN rooms[r].made_for[2] ELSE rooms[r].made_for[1]

\* C10: get_user_rooms and get_room_by_id with label filtering give a member of a
\* room the other member's nickname as the label, whoever created the room.
C10_LabelSymmetry ==
  (/\ Quiet
   /\ \/ last.op = "get_user_rooms"
      \/ last.op = "get_room_by_id" /\ last.action = "filter")
    => /\ last.status = "ok"
       /\ \A r \in DOMAIN last.out : last.out[r] = Nickname(Peer(r, last.user))

\* a step that ends a CREATE action of an ACTIVE session under which the store
\* did not fail
CreateSucceeds ==
  /\ last'.op = "on_receive" /\ last'.action = "CREATE"
  /\ ~last'.fault /\ last'.state = "ACTIVE"
  /\ <<last, messages, events>>' # <<last, messages, events>>

\* C11: a CREATE action with content c in an ACTIVE session of user U on room R,
\* the store not failing, adds exactly one message, with content c, author U and
\* room R, and emits exactly one event, a CREATE_MESSAGE with room id R and the
\* id and content of the stored message.
C11_CreateStoresAndEmitsOnce ==
  [][CreateSucceeds =>
       \E m \in DOMAIN messages' \ DOMAIN messages :
         /\ DOMAIN messages' = DOMAIN messages \cup {m}
         /\ \A x \in DOMAIN messages : messages'[x] = messages[x]
         /\ messages'[m] = [room_id |-> ws[Client].room, author_id |-> ws[Client].current_user,
                            context |-> last'.content]
         /\ last'.status = "ok"
         /\ Len(events') = Len(events) + 1
         /\ SubSeq(events', 1, Len(events)) = events
         /\ LET e == events'[Len(events')] IN
              /\ e.room_id = ws[Client].room
              /\ e.response.type = "CREATE_MESSAGE"
              /\ {"room_id", "message"} \subseteq e.response.keys
              /\ e.response.room_id = ws[Client].room
              /\ e.response.message_id = m
              /\ e.response.message_context = messages'[m].context]_vars

\* the message is in the store under the sender's id
C11_Witness ==
  /\ last.op = "on_receive" /\ last.action = "CREATE"
  /\ ~last.fault /\ last.state = "ACTIVE" /\ last.status = "ok"
  /\ last.rid \in DOMAIN rooms
  /\ rooms[last.rid].made_for[1] = last.user
  /\ \E m \in DOMAIN messages : messages[m].context = last.content /\ messages[m].author_id = last.user

\* C12: the USER_JOIN of a successful on_connect to room R carries R's id, the
\* joining user's id and nickname, and as chat_messages exactly the messages
\* stored in R, oldest first; with no message in R the list is empty and
\* on_connect succeeds all the same.
C12_JoinCarriesHistory ==
  (last.op = "on_connect" /\ last.status = "ok")
    => /\ Len(last.out) = 1
       /\ events # <<>> /\ events[Len(events)].response = last.out[1]
       /\ events[Len(events)].room_id = last.rid
       /\ LET response == last.out[1]
              h == response.chat_messages
          IN
          /\ response.type = "USER_JOIN"
          /\ {"room_id", "user", "chat_messages"} \subseteq response.keys
          /\ last.rid \in DOMAIN rooms /\ last.user \in rooms[last.rid].users
          /\ response.room_id = last.rid
          /\ response.user_id = last.user
          /\ response.user_nickname = Nickname(last.user)
          /\ {h[i].message_id : i \in 1..Len(h)} = InRoom(last.rid)
          /\ Len(h) = Cardinality(InRoom(last.rid))
          /\ \A i \in 1..Len(h) : \A j \in 1..Len(h) : i < j => h[i].message_id < h[j].message_id
          /\ \A i \in 1..Len(h) :
               /\ h[i].message_context = messages[h[i].message_id].context
               /\ h[i].author_id = messages[h[i].message_id].author_id

\* a session joins a room that holds two messages
C12_Witness ==
  /\ last.op = "on_connect" /\ last.status = "ok"
  /\ Len(last.out[1].chat_messages) = 2

\* the values of topic t the loop k of process p has taken so far
Taken(p, k, t) == loop[p][k].offset[t]

\* C13: the two topics are consumed separately: the chat loop subscribes to the
\* chat-rooms topic only and takes nothing sent on the confirmation topic, the
\* verification loop subscribes to the confirmation topic only and takes no
\* chat event.
C13_TopicsConsumedSeparately ==
  \A p \in Procs :
    /\ loop[p]["chat"].subscribed \subseteq {chat_rooms_topic}
    /\ Taken(p, "chat", confirmation_topic) = 0
    /\ loop[p]["code"].subscribed \subseteq {confirmation_topic}
    /\ Taken(p, "code", chat_rooms_topic) = 0

\* C14: set_room_activity on an existing room does not raise because its update
\* failed: after a failed update the stored flag is what it was and the room is
\* returned with it; after an update that went through the returned room's flag
\* is the one given.
C14_ActivityFailureSwallowed ==
  (Quiet /\ last.op = "set_room_activity" /\ last.status # "NotFoundError")
    => /\ last.status = "ok"
       /\ last.rid \in DOMAIN rooms
       /\ last.fault => (rooms[last.rid].active = last.active[2] /\ last.active[3] = last.active[2])
       /\ ~last.fault => (rooms[last.rid].active = last.active[1] /\ last.active[3] = last.active[1])

\* C15: the chat loop never ends on its own: whatever the sessions and the
\* verification producer have published, no chat loop has been ended by an
\* exception raised while it handled a payload.
C15_ChatLoopNeverStops ==
  \A p \in Procs : loop[p]["chat"].at # "raised"

\* C16: every event a session emits carries an event type and the room id of the
\* session's room.
C16_EventsCarryRoomId ==
  \A i \in 1..Len(events) :
    LET response == events[i].response IN
    /\ {"type", "room_id"} \subseteq response.keys
    /\ response.room_id = ws[events[i].websocket].room

\* the label written when the room was created: "<creator>|<peer>"
CanonicalLabel(r) ==
  RoomName(Nickname(rooms[r].made_for[1]), Nickname(rooms[r].made_for[2]))

\* C17: the stored label of a room never changes: after any sequence of
\* directory calls on one session, every room in the store still has the
\* "<creator>|<peer>" label written at its creation.
C17_StoredLabelImmutable ==
  \A r \in DOMAIN rooms : rooms[r].room_name = CanonicalLabel(r)

\* a step that ends an UPDATE or DELETE action of an ACTIVE session
UpdateOrDeleteEnds ==
  /\ last'.op = "on_receive" /\ last'.action \in {"UPDATE", "DELETE"}
  /\ last'.state = "ACTIVE"
  /\ <<last, messages, events>>' # <<last, messages, events>>

\* C18: in an ACTIVE session, an UPDATE or DELETE whose message id is not in the store ends with the
\* store's NotFoundError, changes no row and emits no event; one whose message
\* exists changes that row and then emits exactly one event, an UPDATE_MESSAGE
\* or DELETE_MESSAGE for that message.
C18_UpdateDeleteNotFound ==
  [][UpdateOrDeleteEnds =>
       LET id == last'.message_id IN
       IF id \notin DOMAIN messages
       THEN /\ last'.status = "NotFoundError"
            /\ messages' = messages /\ rooms' = rooms
            /\ events' = events
       ELSE /\ last'.status = "ok"
            /\ Len(events') = Len(events) + 1
            /\ SubSeq(events', 1, Len(events)) = events
            /\ LET response == events'[Len(events')].response IN
                 /\ "message_id" \in response.keys /\ response.message_id = id
                 /\ IF last'.action = "DELETE"
                    THEN /\ response.type = "DELETE_MESSAGE"
                         /\ DOMAIN messages' = DOMAIN messages \ {id}
                    ELSE /\ response.type = "UPDATE_MESSAGE"
                         /\ DOMAIN messages' = DOMAIN messages
                         /\ messages'[id].context = last'.content
                         /\ response.message_context = last'.content
                 /\ \A m \in DOMAIN messages' \ {id} : messages'[m] = messages[m]]_vars

\* a DELETE of a stored message, and after it a DELETE of the same id again
C18_Witness ==
  /\ last.op = "on_receive" /\ last.action = "DELETE"
  /\ last.status = "NotFoundError" /\ last.state = "ACTIVE"
  /\ last.message_id < nextMsgId
  /\ \E i \in 1..Len(events) :
       /\ events[i].response.type = "DELETE_MESSAGE"
       /\ events[i].response.message_id = last.message_id

\* C19: a room is destroyed when its last member leaves, whichever way
\* concurrent leaves interleave: once every call has returned, no room in the
\* store is without members.
C19_NoEmptyRoom ==
  Quiet => \A r \in DOMAIN rooms : rooms[r].users # {}

\* the rooms created for the two users a and b, in either order
RoomsNaming(a, b) ==
  {r \in DOMAIN rooms :
     CanonicalLabel(r) \in {RoomName(Nickname(a), Nickname(b)), RoomName(Nickname(b), Nickname(a))}}

\* C20: after any sequence of get_or_create_room and remove_user_from_chat calls
\* made one after the other, at most one room in the store was created for the
\* two users a and b.
C20_OneRoomPerPairAfterLeave ==
  Quiet => \A a \in Users, b \in Users : a # b => Cardinality(RoomsNaming(a, b)) <= 1

====
